---------------------------- MODULE Spec2Model ----------------------------
(***************************************************************************)
(* Visual3D export -> OpenSim TRC conversion (mprib/pdsv_opensim).         *)
(*                                                                         *)
(* Two programs are modelled:                                              *)
(*   "v3d"   scripts/v3d_to_trc.py : read_raw_v3d_export_file (twice),     *)
(*           get_all_v3d_trajectories, convert_df_to_trc                   *)
(*   "ascii" scripts/ascii_to_trc.py : convert_to_trc                      *)
(*                                                                         *)
(* Conventions.  A string is a sequence of one-character strings, so that  *)
(* concatenation, endswith and slicing are computed as Python computes     *)
(* them.  A text line is the sequence of its tab-separated cells.  A table *)
(* cell is <<>> when it is missing (NaN) and <<n>> when it holds the       *)
(* number n / Den; floating point numbers are modelled as exact rationals. *)
(***************************************************************************)
EXTENDS Integers, Sequences, FiniteSets, TLC

VARIABLES prog,          \* which script runs: "v3d" or "ascii"
          lfile,         \* the landmarks export file
          tfile,         \* the targets export file
          frame_rate,    \* argument frame_rate
          units,         \* argument units (convert_df_to_trc only)
          pc,            \* position in the script
          trajectories,  \* v3d: the merged table handed to convert_df_to_trc
          df,            \* v3d: df of convert_df_to_trc; ascii: trc_df
          markers,       \* v3d: markers; ascii: all_markers
          num_frames,    \* local num_frames of the writer
          out,           \* the file at the output path
          err            \* the exception that ended the run, "" when none

vars == <<prog, lfile, tfile, frame_rate, units, pc, trajectories, df,
          markers, num_frames, out, err>>

---------------------------------------------------------------------------
(* Bounds of the model.                                                    *)

MaxRows == 3
MaxFrame == 3
MaxMarkers == 2

(* Program constants.                                                      *)

UnitScale == 1000
CoordDecimals == 6
TimeDecimalsDf == 6
TimeDecimalsAscii == 4
DefaultFrameRate == 100

---------------------------------------------------------------------------
(* Arithmetic helpers.                                                     *)

Abs(n) == IF n < 0 THEN -n ELSE n

RECURSIVE Pow10(_)
Pow10(p) == IF p = 0 THEN 1 ELSE 10 * Pow10(p - 1)

RECURSIVE Gcd(_, _)
Gcd(a, b) == IF b = 0 THEN a ELSE Gcd(b, a % b)

RECURSIVE LcmUpTo(_)
LcmUpTo(n) == IF n <= 1 THEN 1
              ELSE LET l == LcmUpTo(n - 1) IN (l * n) \div Gcd(l, n)

(* The common denominator of every table value: interpolating between two  *)
(* rows that are d positions apart divides by d, and d < MaxRows.          *)
Den == LcmUpTo(MaxRows - 1)

---------------------------------------------------------------------------
(* Strings and lists, as Python's.                                         *)

EmptyStr == <<>>
Tab == "\t"
ITEM == <<"I", "T", "E", "M">>
Digits == <<"0", "1", "2", "3", "4", "5", "6", "7", "8", "9">>

Axis(k) == << <<"X", "Y", "Z">>[k] >>

\* s.endswith(suf)
EndsWith(s, suf) ==
    /\ Len(s) >= Len(suf)
    /\ SubSeq(s, Len(s) - Len(suf) + 1, Len(s)) = suf

\* s[:-2]
DropLast2(s) == SubSeq(s, 1, Len(s) - 2)

\* x in seq
In(x, seq) == \E k \in 1..Len(seq) : seq[k] = x

\* seq.index(x), as a 0-based position (the caller tests x in seq first)
IndexOf(x, seq) == (CHOOSE k \in 1..Len(seq) :
                       seq[k] = x /\ \A j \in 1..(k - 1) : seq[j] # x) - 1

\* seq[i] for a Python index i, which may be negative
PyAt(seq, i) == IF i < 0 THEN seq[Len(seq) + i + 1] ELSE seq[i + 1]

\* [x for x in seq if x]
NonEmpty(seq) == SelectSeq(seq, LAMBDA c : c # EmptyStr)

HasDuplicates(seq) == \E j, k \in 1..Len(seq) : j < k /\ seq[j] = seq[k]

RECURSIVE LStripCells(_)
LStripCells(cells) ==
    IF cells # <<>> /\ Head(cells) = EmptyStr THEN LStripCells(Tail(cells))
    ELSE cells

RECURSIVE RStripCells(_)
RStripCells(cells) ==
    IF cells # <<>> /\ cells[Len(cells)] = EmptyStr
    THEN RStripCells(SubSeq(cells, 1, Len(cells) - 1))
    ELSE cells

\* line.strip().split('\t'): the leading and trailing tabs go, and what is
\* left of an all-blank line splits into one empty string
StripSplit(cells) ==
    LET s == RStripCells(LStripCells(cells))
    IN  IF s = <<>> THEN <<EmptyStr>> ELSE s

---------------------------------------------------------------------------
(* Tables (pandas DataFrame): column names, row labels, rows of cells.     *)

NaN == <<>>
Num(n) == <<n>>
IsNaN(c) == c = NaN

Table(cols, index, data) == [cols |-> cols, index |-> index, data |-> data]
NoTable == Table(<<>>, <<>>, <<>>)

\* the positions of the columns named name
ColsNamed(t, name) == {k \in 1..Len(t.cols) : t.cols[k] = name}
\* the positions of the rows labelled frame
RowsLabelled(t, frame) == {i \in 1..Len(t.index) : t.index[i] = frame}

Column(t, k) == [i \in 1..Len(t.data) |-> t.data[i][k]]

\* df.isna().any().any()
AnyNaN(t) == \E i \in 1..Len(t.data) : \E k \in 1..Len(t.cols) :
                 IsNaN(t.data[i][k])

---------------------------------------------------------------------------
(* The export files.  A file is its header lines 1, 2 and 5 (lines 3 and 4 *)
(* are read and never used by either script), each the sequence of its     *)
(* tab-separated cells, and its data lines: the Frame cell of each and the *)
(* cells that follow it.                                                   *)

File(line1, line2, line5, frames, data) ==
    [line1 |-> line1, line2 |-> line2, line5 |-> line5,
     frames |-> frames, data |-> data]

Min(a, b) == IF a <= b THEN a ELSE b

---------------------------------------------------------------------------
(* scripts/v3d_to_trc.py                                                   *)

\* read_raw_v3d_export_file, lines 24-36: the names handed to read_csv
column_headings(file) ==
    LET filename_headers == StripSplit(file.line1)
        marker_names == NonEmpty(StripSplit(file.line2))
        axes == SelectSeq(StripSplit(file.line5), LAMBDA a : a # ITEM)
        n == Min(Len(filename_headers), Min(Len(marker_names), Len(axes)))
    IN  <<ITEM>> \o [k \in 1..n |->
                       filename_headers[k] \o <<"_">> \o marker_names[k]
                                           \o <<"_">> \o axes[k]]

\* read_raw_v3d_export_file: read_csv refuses duplicate names (ValueError);
\* otherwise the first column becomes the index and the rest keep the names
read_raw_v3d_export_file(file) ==
    LET names == column_headings(file)
    IN  IF HasDuplicates(names)
        THEN [ok |-> FALSE, table |-> NoTable]
        ELSE [ok |-> TRUE,
              table |-> Table(Tail(names), file.frames, file.data)]

\* the labels of b that a lacks, in b's order
RECURSIVE NewLabels(_, _)
NewLabels(a, b) ==
    IF b = <<>> THEN <<>>
    ELSE IF In(Head(b), a) THEN NewLabels(a, Tail(b))
    ELSE <<Head(b)>> \o NewLabels(a \o <<Head(b)>>, Tail(b))

\* the row of t labelled frame, all NaN when t has none
RowOrNaN(t, frame) ==
    IF RowsLabelled(t, frame) = {}
    THEN [k \in 1..Len(t.cols) |-> NaN]
    ELSE t.data[CHOOSE i \in RowsLabelled(t, frame) : TRUE]

\* pd.concat([landmarks, targets], axis=1): the columns of both side by
\* side, duplicate names kept; equal indexes are taken as they are, unequal
\* ones are outer-joined, which pandas refuses when a label repeats
concat(l, t) ==
    IF l.index = t.index
    THEN [ok |-> TRUE,
          table |-> Table(l.cols \o t.cols, l.index,
                          [i \in 1..Len(l.index) |-> l.data[i] \o t.data[i]])]
    ELSE IF HasDuplicates(l.index) \/ HasDuplicates(t.index)
    THEN [ok |-> FALSE, table |-> NoTable]
    ELSE LET index == l.index \o NewLabels(l.index, t.index)
         IN  [ok |-> TRUE,
              table |-> Table(l.cols \o t.cols, index,
                              [i \in 1..Len(index) |->
                                 RowOrNaN(l, index[i]) \o RowOrNaN(t, index[i])])]

\* get_all_v3d_trajectories
get_all_v3d_trajectories(lf, tf) ==
    LET landmarks == read_raw_v3d_export_file(lf)
        targets == read_raw_v3d_export_file(tf)
    IN  IF ~landmarks.ok \/ ~targets.ok
        THEN [ok |-> FALSE, err |-> "ValueError", table |-> NoTable]
        ELSE LET c == concat(landmarks.table, targets.table)
             IN  [ok |-> c.ok,
                  err |-> IF c.ok THEN "" ELSE "InvalidIndexError",
                  table |-> c.table]

---------------------------------------------------------------------------
(* Text fields of the output file.  A line of the file is the sequence of  *)
(* its tab-separated fields.                                               *)

Txt(s) == [t |-> "s", s |-> s]
Word(w) == Txt(<<w>>)
IntField(v) == [t |-> "i", v |-> v]
Fixed(neg, ip, fp, p) == [t |-> "n", neg |-> neg, ip |-> ip, fp |-> fp, p |-> p]
NanTxt == [t |-> "nan"]
EmptyField == Txt(EmptyStr)

\* str(n) for n >= 0
RECURSIVE IntStr(_)
IntStr(n) == IF n < 10 THEN <<Digits[n + 1]>>
             ELSE IntStr(n \div 10) \o <<Digits[(n % 10) + 1]>>

\* rem * scale / den rounded to an integer, ties to even
RoundDiv(rem, den, scale) ==
    LET q == (rem * scale) \div den
        r == (rem * scale) % den
    IN  IF 2 * r > den \/ (2 * r = den /\ q % 2 = 1) THEN q + 1 ELSE q

\* f"{v:.{p}f}" for the number v of magnitude num / den and sign bit neg
FormatFixed(neg, num, den, p) ==
    LET fr == RoundDiv(num % den, den, Pow10(p))
    IN  IF fr = Pow10(p) THEN Fixed(neg, (num \div den) + 1, 0, p)
        ELSE Fixed(neg, num \div den, fr, p)

\* f"{c:.6f}" of a table cell, f"{-c:.6f}" when negate: NaN prints as nan,
\* and the negation of zero prints with a minus sign
FormatCell(c, negate) ==
    IF IsNaN(c) THEN NanTxt
    ELSE FormatFixed(IF negate THEN ~(c[1] < 0) ELSE c[1] < 0,
                     Abs(c[1]), Den, CoordDecimals)

\* text.rstrip(): the trailing tabs go
RStripLine(fields) ==
    LET RECURSIVE strip(_)
        strip(fs) == IF fs # <<>> /\ fs[Len(fs)] = EmptyField
                     THEN strip(SubSeq(fs, 1, Len(fs) - 1)) ELSE fs
        s == strip(fields)
    IN  IF s = <<>> THEN <<EmptyField>> ELSE s

\* text + piece, where text ends with a tab: its last, empty, field is
\* where piece starts
AddText(fields, piece) == SubSeq(fields, 1, Len(fields) - 1) \o piece

RECURSIVE Flatten(_)
Flatten(pieces) == IF pieces = <<>> THEN <<>>
                   ELSE Head(pieces) \o Flatten(Tail(pieces))

OutputPath == Word("output_filepath")

PathLine == <<Word("PathFileType"), IntField(4), Word("(X/Y/Z)"), OutputPath>>
NamesLine == <<Word("DataRate"), Word("CameraRate"), Word("NumFrames"),
               Word("NumMarkers"), Word("Units"), Word("OrigDataRate"),
               Word("OrigDataStartFrame"), Word("OrigNumFrames")>>

NoOutput == [exists |-> FALSE, lines |-> <<>>]

---------------------------------------------------------------------------
(* convert_df_to_trc                                                       *)

Max(S) == CHOOSE x \in S : \A y \in S : y <= x
MinOf(S) == CHOOSE x \in S : \A y \in S : x <= y

\* a different gap-filling: every gap takes the last valid value before it
\* (method='ffill'), and the first valid value when there is none
InterpolateAtFfill(col, i) ==
    IF ~IsNaN(col[i]) THEN col[i]
    ELSE LET valid == {j \in 1..Len(col) : ~IsNaN(col[j])}
             before == {j \in valid : j < i}
         IN  IF valid = {} THEN NaN
             ELSE IF before = {} THEN col[MinOf(valid)]
             ELSE col[Max(before)]

\* Series.interpolate(method='linear', limit_direction='both') of one
\* column: the rows are taken as equally spaced (their labels are not
\* read); a gap before the first or after the last valid value takes that
\* value; a column with no valid value is left as it is
InterpolateAt(col, i) ==
    IF ~IsNaN(col[i]) THEN col[i]
    ELSE LET valid == {j \in 1..Len(col) : ~IsNaN(col[j])}
             before == {j \in valid : j < i}
             after == {j \in valid : j > i}
         IN  IF before = {} /\ after = {} THEN NaN
             ELSE IF before = {} THEN col[MinOf(after)]
             ELSE IF after = {} THEN col[Max(before)]
             ELSE LET p == Max(before)
                      q == MinOf(after)
                      a == col[p][1]
                      b == col[q][1]
                  IN  Num(a + ((b - a) * (i - p)) \div (q - p))

\* lines 107-110
interpolate(t) ==
    IF AnyNaN(t)
    THEN Table(t.cols, t.index,
               [i \in 1..Len(t.data) |->
                  [k \in 1..Len(t.cols) |-> InterpolateAt(Column(t, k), i)]])
    ELSE t

\* line 113: df * 1000.0
ScaleCell(c) == IF IsNaN(c) THEN NaN ELSE Num(c[1] * UnitScale)

scale(t) == Table(t.cols, t.index,
                  [i \in 1..Len(t.data) |->
                     [k \in 1..Len(t.cols) |-> ScaleCell(t.data[i][k])]])

\* a different marker scan: the test "marker not in markers" is left out
RECURSIVE ExtractMarkersNoCheck(_, _)
ExtractMarkersNoCheck(cols, found) ==
    IF cols = <<>> THEN found
    ELSE LET col == Head(cols)
             isAxis == \/ EndsWith(col, <<"_", "X">>)
                       \/ EndsWith(col, <<"_", "Y">>)
                       \/ EndsWith(col, <<"_", "Z">>)
         IN  ExtractMarkersNoCheck(Tail(cols),
                 IF isAxis THEN Append(found, DropLast2(col)) ELSE found)

\* lines 116-123
RECURSIVE ExtractMarkers(_, _)
ExtractMarkers(cols, found) ==
    IF cols = <<>> THEN found
    ELSE LET col == Head(cols)
             isAxis == \/ EndsWith(col, <<"_", "X">>)
                       \/ EndsWith(col, <<"_", "Y">>)
                       \/ EndsWith(col, <<"_", "Z">>)
         IN  IF isAxis /\ ~In(DropLast2(col), found)
             THEN ExtractMarkers(Tail(cols), Append(found, DropLast2(col)))
             ELSE ExtractMarkers(Tail(cols), found)

\* line 138
MetaLine(rate, nframes, nmarkers, unit, start) ==
    <<IntField(rate), IntField(rate), IntField(nframes), IntField(nmarkers), unit, IntField(rate),
      start, IntField(nframes)>>

\* lines 141-144
DfMarkerLine(ms) ==
    RStripLine(AddText(<<Word("Frame#"), Word("Time"), EmptyField>>,
        Flatten([j \in 1..Len(ms) |-> <<Txt(ms[j]), EmptyField, EmptyField>>])
        \o <<EmptyField>>))

\* a different axis row: range(1, num_markers), one label triple short
DfAxisLineShort(n) ==
    RStripLine(AddText(<<EmptyField, EmptyField, EmptyField>>,
        Flatten([j \in 1..(n - 1) |-> <<Txt(<<"X">> \o IntStr(j)),
                                        Txt(<<"Y">> \o IntStr(j)),
                                        Txt(<<"Z">> \o IntStr(j))>>])
        \o <<EmptyField>>))

\* lines 147-150
DfAxisLine(n) ==
    RStripLine(AddText(<<EmptyField, EmptyField, EmptyField>>,
        Flatten([j \in 1..n |-> <<Txt(<<"X">> \o IntStr(j)),
                                  Txt(<<"Y">> \o IntStr(j)),
                                  Txt(<<"Z">> \o IntStr(j))>>])
        \o <<EmptyField>>))

\* df.loc[frame, name] is a number only when one row carries the label and
\* one column the name
Scalar(t, frame, name) ==
    Cardinality(RowsLabelled(t, frame)) = 1 /\ Cardinality(ColsNamed(t, name)) = 1

Loc(t, frame, name) ==
    t.data[CHOOSE i \in RowsLabelled(t, frame) : TRUE]
          [CHOOSE k \in ColsNamed(t, name) : TRUE]

AxisCol(marker, a) == marker \o <<"_">> \o Axis(a)

\* a different transformation: the axes are written as they are read
transformed_as_read(x_val, y_val, z_val) ==
    <<FormatCell(x_val, FALSE), FormatCell(y_val, FALSE), FormatCell(z_val, FALSE)>>

\* lines 162-167: the axes of the output, as axes of the input and signs
transformed(x_val, y_val, z_val) ==
    <<FormatCell(x_val, FALSE), FormatCell(z_val, FALSE), FormatCell(y_val, TRUE)>>

\* lines 156-169 for one marker: "KeyError" when a lookup finds no column,
\* "TypeError" when a looked up value is no number, "" otherwise
MarkerError(t, frame, marker) ==
    IF \E a \in 1..3 : ColsNamed(t, AxisCol(marker, a)) = {} THEN "KeyError"
    ELSE IF \E a \in 1..3 : ~Scalar(t, frame, AxisCol(marker, a)) THEN "TypeError"
    ELSE ""

\* the first marker, in order, whose fields cannot be written; 0 when none
FirstBad(t, frame, ms) ==
    LET bad == {j \in 1..Len(ms) : MarkerError(t, frame, ms[j]) # ""}
    IN  IF bad = {} THEN 0 ELSE MinOf(bad)

\* lines 154-171: the data line of row i
DfDataLine(t, ms, i, rate) ==
    LET frame == t.index[i]
    IN  RStripLine(AddText(
          <<IntField(frame), FormatFixed(FALSE, frame, rate, TimeDecimalsDf), EmptyField>>,
          Flatten([j \in 1..Len(ms) |->
                     transformed(Loc(t, frame, AxisCol(ms[j], 1)),
                                 Loc(t, frame, AxisCol(ms[j], 2)),
                                 Loc(t, frame, AxisCol(ms[j], 3)))])
          \o <<EmptyField>>))

HeaderLines == 5
DataRows(o) == IF Len(o.lines) > HeaderLines
               THEN SubSeq(o.lines, HeaderLines + 1, Len(o.lines)) ELSE <<>>

---------------------------------------------------------------------------
(* The inputs.  Three families of runs: one ranges over the headers of the *)
(* two files, one over the frames and the cells of one column, one over    *)
(* the arguments and the row labels.                                       *)

\* a tag and a name may hold "_": f_A with X and f with A_X give one name
Names == {<<"A">>, <<"X">>, <<"A", "_", "X">>}
Tags == {<<"f">>, <<"f", "_", "A">>}
Vals == {-1, 0, 2}
Rates == {3, DefaultFrameRate}
UnitsArg == {"mm", "m"}
Progs == {"v3d", "ascii"}

Cells == {NaN} \cup {Num(Den * v) : v \in Vals}

\* lists of distinct marker names
MarkerLists ==
    UNION {{s \in [1..n -> Names] : \A j, k \in 1..n : j < k => s[j] # s[k]}
           : n \in 0..MaxMarkers}

\* row labels in increasing order, and in nondecreasing order
IncFrames ==
    UNION {{s \in [1..n -> 0..MaxFrame] : \A j \in 1..(n - 1) : s[j] < s[j + 1]}
           : n \in 0..MaxRows}
NonDecFrames ==
    UNION {{s \in [1..n -> 0..MaxFrame] : \A j \in 1..(n - 1) : s[j] <= s[j + 1]}
           : n \in 0..MaxRows}

StdFrames == <<1, 2>>
StdLandmarks == << <<"A">> >>
StdTargets == << <<"X">> >>
StdTag == <<"f">>

\* the cell of column k, row i, of file o (0: landmarks, 1: targets) where
\* the run does not choose it
BaseCell(o, k, i) == Num(Den * (((o + k + 2 * i) % 5) - 2))

\* an export of the markers ms from the c3d file tag: every header cell of
\* a column carries the tag (line 1), the marker name (line 2) and the axis
\* (line 5); with lackZ the last marker's Z column is not in the file
MkFile(tag, ms, lackZ, frames, o, probe, pattern) ==
    LET ncols == IF lackZ /\ ms # <<>> THEN 3 * Len(ms) - 1 ELSE 3 * Len(ms)
    IN  File(<<EmptyStr>> \o [k \in 1..ncols |-> tag],
             <<EmptyStr>> \o [k \in 1..ncols |-> ms[((k - 1) \div 3) + 1]],
             <<ITEM>> \o [k \in 1..ncols |-> Axis(((k - 1) % 3) + 1)],
             frames,
             [i \in 1..Len(frames) |->
                [k \in 1..ncols |->
                   IF k = probe THEN pattern[i] ELSE BaseCell(o, k, i)]])

Start ==
    /\ pc = "start"
    /\ trajectories = NoTable
    /\ df = NoTable
    /\ markers = <<>>
    /\ num_frames = 0
    /\ out = NoOutput
    /\ err = ""

InitHeaders ==
    \E lm \in MarkerLists, tm \in MarkerLists, lt \in Tags, tt \in Tags,
       short \in {"none", "L", "T"} :
        /\ lfile = MkFile(lt, lm, short = "L", StdFrames, 0, 0, <<>>)
        /\ tfile = MkFile(tt, tm, short = "T", StdFrames, 1, 0, <<>>)
        /\ frame_rate = DefaultFrameRate
        /\ units = "mm"

InitCells ==
    \E fr \in IncFrames, o \in {0, 1}, k \in 1..3 :
      \E pattern \in [1..Len(fr) -> Cells] :
        /\ lfile = MkFile(StdTag, StdLandmarks, FALSE, fr, 0,
                          IF o = 0 THEN k ELSE 0, pattern)
        /\ tfile = MkFile(StdTag, StdTargets, FALSE, fr, 1,
                          IF o = 1 THEN k ELSE 0, pattern)
        /\ frame_rate = DefaultFrameRate
        /\ units = "mm"

InitArgs ==
    \E fr \in NonDecFrames, r \in Rates, u \in UnitsArg, fewer \in BOOLEAN :
        /\ lfile = MkFile(StdTag, StdLandmarks, FALSE, fr, 0, 0, <<>>)
        /\ tfile = MkFile(StdTag, StdTargets, FALSE,
                          IF fewer /\ fr # <<>>
                          THEN SubSeq(fr, 1, Len(fr) - 1) ELSE fr,
                          1, 0, <<>>)
        /\ frame_rate = r
        /\ units = u

Init ==
    /\ prog \in Progs
    /\ Start
    /\ (InitHeaders \/ InitCells \/ InitArgs)

---------------------------------------------------------------------------
(* v3d_to_trc.py, step by step.  The writer is cut where the output file   *)
(* changes, since an exception leaves the file as the last write left it.  *)

Fail(e) ==
    /\ pc' = "failed"
    /\ err' = e

\* get_all_v3d_trajectories (lines 78-87)
V3dRead ==
    /\ prog = "v3d"
    /\ pc = "start"
    /\ LET r == get_all_v3d_trajectories(lfile, tfile)
       IN  IF r.ok
           THEN /\ trajectories' = r.table
                /\ pc' = "merged"
                /\ err' = err
           ELSE /\ Fail(r.err)
                /\ UNCHANGED trajectories
    /\ UNCHANGED <<prog, lfile, tfile, frame_rate, units, df, markers,
                   num_frames, out>>

\* convert_df_to_trc, lines 105-131: df.index[0] raises IndexError on a
\* table with no rows
V3dPrepare ==
    /\ prog = "v3d"
    /\ pc = "merged"
    /\ df' = scale(interpolate(trajectories))
    /\ markers' = ExtractMarkers(df'.cols, <<>>)
    /\ num_frames' = Len(df'.index)
    /\ IF df'.index = <<>>
       THEN Fail("IndexError")
       ELSE pc' = "prepared" /\ err' = err
    /\ UNCHANGED <<prog, lfile, tfile, frame_rate, units, trajectories, out>>

\* convert_df_to_trc, lines 134-150: open(output_filepath, 'w') and the
\* five header lines
V3dHeader ==
    /\ prog = "v3d"
    /\ pc = "prepared"
    /\ out' = [exists |-> TRUE,
               lines |-> <<PathLine, NamesLine,
                           MetaLine(frame_rate, num_frames, Len(markers),
                                    Word(units), IntField(df.index[1])),
                           DfMarkerLine(markers),
                           DfAxisLine(Len(markers))>>]
    /\ pc' = "rows"
    /\ UNCHANGED <<prog, lfile, tfile, frame_rate, units, trajectories, df,
                   markers, num_frames, err>>

\* convert_df_to_trc, lines 153-171: one pass of the loop over df.index;
\* an exception leaves the loop and closes the file as it is
V3dRow ==
    /\ prog = "v3d"
    /\ pc = "rows"
    /\ Len(DataRows(out)) < Len(df.index)
    /\ LET i == Len(DataRows(out)) + 1
           bad == FirstBad(df, df.index[i], markers)
       IN  IF bad = 0
           THEN /\ out' = [out EXCEPT !.lines =
                             Append(@, DfDataLine(df, markers, i, frame_rate))]
                /\ UNCHANGED <<pc, err>>
           ELSE /\ Fail(MarkerError(df, df.index[i], markers[bad]))
                /\ UNCHANGED out
    /\ UNCHANGED <<prog, lfile, tfile, frame_rate, units, trajectories, df,
                   markers, num_frames>>

\* convert_df_to_trc, lines 171-176: the loop is over, the file is closed
V3dClose ==
    /\ prog = "v3d"
    /\ pc = "rows"
    /\ Len(DataRows(out)) = Len(df.index)
    /\ pc' = "done"
    /\ UNCHANGED <<prog, lfile, tfile, frame_rate, units, trajectories, df,
                   markers, num_frames, out, err>>

---------------------------------------------------------------------------
(* scripts/ascii_to_trc.py: convert_to_trc                                 *)

\* how many of the first k-1 names equal the k-th
Earlier(names, k) == Cardinality({j \in 1..(k - 1) : names[j] = names[k]})

\* pd.read_csv(file, sep='\t', skiprows=4): line 5 is the header, a
\* repeated name gets .1, .2, ... appended, the rows are numbered from 0 and
\* the Frame cell is the first data column
read_csv_skip4(file) ==
    Table([k \in 1..Len(file.line5) |->
             IF Earlier(file.line5, k) = 0 THEN file.line5[k]
             ELSE file.line5[k] \o <<".">> \o IntStr(Earlier(file.line5, k))],
          [i \in 1..Len(file.frames) |-> i - 1],
          [i \in 1..Len(file.frames) |->
             <<Num(Den * file.frames[i])>> \o file.data[i]])

\* lines 42-54 and 77-89: the non-empty cells of header line 2, and every
\* third of them
marker_names_line(file) == NonEmpty(StripSplit(file.line2))

EveryThird(names) ==
    [j \in 1..((Len(names) + 2) \div 3) |-> names[3 * (j - 1) + 1]]

\* pd.isna(t[name]).all()
AllNaN(t, name) ==
    \A i \in 1..Len(t.data) : \A k \in ColsNamed(t, name) : IsNaN(t.data[i][k])

\* trc[name] = src[col]: the values are aligned on the row labels, a label
\* src lacks gives NaN; a new name is appended, an old one overwritten
SetColumn(trc, name, src, col) ==
    LET k == CHOOSE c \in ColsNamed(src, col) : TRUE
        value(i) == IF RowsLabelled(src, trc.index[i]) = {} THEN NaN
                    ELSE src.data[CHOOSE r \in RowsLabelled(src, trc.index[i]) : TRUE][k]
    IN  IF ColsNamed(trc, name) = {}
        THEN Table(Append(trc.cols, name), trc.index,
                   [i \in 1..Len(trc.index) |-> Append(trc.data[i], value(i))])
        ELSE Table(trc.cols, trc.index,
                   [i \in 1..Len(trc.index) |->
                      [c \in 1..Len(trc.cols) |->
                         IF trc.cols[c] = name THEN value(i) ELSE trc.data[i][c]]])

\* lines 66-68 and 103-105
SetMarker(trc, marker, src, x_col, y_col, z_col) ==
    SetColumn(SetColumn(SetColumn(trc, AxisCol(marker, 1), src, x_col),
                        AxisCol(marker, 2), src, y_col),
              AxisCol(marker, 3), src, z_col)

\* lines 59-61: the column chosen for axis a of a landmark marker
LandmarkCol(landmark_cols, marker, a) ==
    LET marker_cols == SelectSeq(landmark_cols, LAMBDA c : c # ITEM)
        key == marker \o <<Tab>> \o Axis(a)
    IN  PyAt(landmark_cols,
             IF In(key, marker_cols) THEN IndexOf(key, marker_cols) ELSE -1)

\* lines 57-69: st is [trc, found]
RECURSIVE AddLandmarks(_, _, _)
AddLandmarks(st, unique_markers, landmarks_df) ==
    IF unique_markers = <<>> THEN st
    ELSE LET marker == Head(unique_markers)
             x_col == LandmarkCol(landmarks_df.cols, marker, 1)
             y_col == LandmarkCol(landmarks_df.cols, marker, 2)
             z_col == LandmarkCol(landmarks_df.cols, marker, 3)
         IN  AddLandmarks(
               IF ~AllNaN(landmarks_df, x_col)
               THEN [trc |-> SetMarker(st.trc, marker, landmarks_df,
                                       x_col, y_col, z_col),
                     found |-> Append(st.found, marker)]
               ELSE st,
               Tail(unique_markers), landmarks_df)

\* lines 92-106: st is [trc, found]
RECURSIVE AddTargets(_, _, _, _)
AddTargets(st, unique_target_markers, names, targets_df) ==
    IF unique_target_markers = <<>> THEN st
    ELSE LET marker == Head(unique_target_markers)
             x_idx == IndexOf(marker, names)
             x_col == PyAt(targets_df.cols, x_idx)
             y_col == PyAt(targets_df.cols, x_idx + 1)
             z_col == PyAt(targets_df.cols, x_idx + 2)
         IN  AddTargets(
               IF ~AllNaN(targets_df, x_col)
               THEN [trc |-> SetMarker(st.trc, marker, targets_df,
                                       x_col, y_col, z_col),
                     found |-> Append(st.found, marker)]
               ELSE st,
               Tail(unique_target_markers), names, targets_df)

\* lines 97-99 raise IndexError when the file has fewer than x_idx + 3
\* columns
TargetsIndexError(unique_target_markers, names, targets_df) ==
    \E j \in 1..Len(unique_target_markers) :
        IndexOf(unique_target_markers[j], names) + 2 >= Len(targets_df.cols)

FrameCol == <<"Frame#">>
TimeCol == <<"Time">>

\* a different time column: Time is Frame# / rate
InitialTrcFromOne(n, rate) ==
    Table(<<FrameCol, TimeCol>>, [i \in 1..n |-> i - 1],
          [i \in 1..n |-> <<Num(Den * i), <<i, rate>> >>])

\* lines 25-33: Frame# counts the rows from 1, Time is row number / rate
\* (the cell <<n, d>> is the number n / d)
InitialTrc(n, rate) ==
    Table(<<FrameCol, TimeCol>>, [i \in 1..n |-> i - 1],
          [i \in 1..n |-> <<Num(Den * i), <<i - 1, rate>> >>])

\* lines 21-110
BuildTrc(lf, tf, rate) ==
    LET landmarks_df == read_csv_skip4(lf)
        targets_df == read_csv_skip4(tf)
        lnames == marker_names_line(lf)
        tnames == marker_names_line(tf)
        l == AddLandmarks([trc |-> InitialTrc(Len(landmarks_df.data), rate),
                           found |-> <<>>],
                          EveryThird(lnames), landmarks_df)
    IN  IF TargetsIndexError(EveryThird(tnames), tnames, targets_df)
        THEN [ok |-> FALSE, trc |-> NoTable, all_markers |-> <<>>,
              n |-> Len(landmarks_df.data)]
        ELSE LET t == AddTargets([trc |-> l.trc, found |-> <<>>],
                                 EveryThird(tnames), tnames, targets_df)
             IN  [ok |-> TRUE, trc |-> t.trc,
                  all_markers |-> l.found \o t.found,
                  n |-> Len(landmarks_df.data)]

\* lines 120-123
AsciiMarkerLine(ms) ==
    AddText(<<Word("Frame#"), Word("Time"), EmptyField>>,
        Flatten([j \in 1..Len(ms) |-> <<Txt(ms[j]), EmptyField, EmptyField>>])
        \o <<EmptyField>>)

\* lines 126-129
AsciiAxisLine(ms) ==
    AddText(<<EmptyField, EmptyField, EmptyField>>,
        Flatten([j \in 1..Len(ms) |-> <<Txt(<<"X">> \o ms[j]),
                                        Txt(<<"Y">> \o ms[j]),
                                        Txt(<<"Z">> \o ms[j])>>])
        \o <<EmptyField>>)

\* lines 134-143: the data line of the row labelled i - 1
AsciiDataLine(trc, ms, i) ==
    LET time == Loc(trc, i - 1, TimeCol)
    IN  AddText(
          <<IntField(Loc(trc, i - 1, FrameCol)[1] \div Den),
            FormatFixed(FALSE, time[1], time[2], TimeDecimalsAscii),
            EmptyField>>,
          Flatten([j \in 1..Len(ms) |->
                     IF ColsNamed(trc, AxisCol(ms[j], 1)) # {}
                     THEN <<FormatCell(Loc(trc, i - 1, AxisCol(ms[j], 1)), FALSE),
                            FormatCell(Loc(trc, i - 1, AxisCol(ms[j], 2)), FALSE),
                            FormatCell(Loc(trc, i - 1, AxisCol(ms[j], 3)), FALSE)>>
                     ELSE <<EmptyField, EmptyField, EmptyField>>])
          \o <<EmptyField>>)

\* lines 21-110: everything before the output file is opened
AsciiBuild ==
    /\ prog = "ascii"
    /\ pc = "start"
    /\ LET b == BuildTrc(lfile, tfile, frame_rate)
       IN  /\ df' = b.trc
           /\ markers' = b.all_markers
           /\ num_frames' = b.n
           /\ IF b.ok THEN pc' = "prepared" /\ err' = err
              ELSE Fail("IndexError")
    /\ UNCHANGED <<prog, lfile, tfile, frame_rate, units, trajectories, out>>

\* lines 113-129: open(output_file, 'w') and the five header lines
AsciiHeader ==
    /\ prog = "ascii"
    /\ pc = "prepared"
    /\ out' = [exists |-> TRUE,
               lines |-> <<PathLine, NamesLine,
                           MetaLine(frame_rate, num_frames, Len(markers),
                                    Word("mm"), IntField(1)),
                           AsciiMarkerLine(markers),
                           AsciiAxisLine(markers)>>]
    /\ pc' = "rows"
    /\ UNCHANGED <<prog, lfile, tfile, frame_rate, units, trajectories, df,
                   markers, num_frames, err>>

\* lines 132-143: one pass of the loop over range(num_frames)
AsciiRow ==
    /\ prog = "ascii"
    /\ pc = "rows"
    /\ Len(DataRows(out)) < num_frames
    /\ out' = [out EXCEPT !.lines =
                 Append(@, AsciiDataLine(df, markers, Len(DataRows(out)) + 1))]
    /\ UNCHANGED <<prog, lfile, tfile, frame_rate, units, pc, trajectories,
                   df, markers, num_frames, err>>

\* lines 143-148: the loop is over, the file is closed
AsciiClose ==
    /\ prog = "ascii"
    /\ pc = "rows"
    /\ Len(DataRows(out)) = num_frames
    /\ pc' = "done"
    /\ UNCHANGED <<prog, lfile, tfile, frame_rate, units, trajectories, df,
                   markers, num_frames, out, err>>

NextAscii == AsciiBuild \/ AsciiHeader \/ AsciiRow \/ AsciiClose

NextV3d == V3dRead \/ V3dPrepare \/ V3dHeader \/ V3dRow \/ V3dClose

Next == NextV3d \/ NextAscii

Spec == Init /\ [][Next]_vars

---------------------------------------------------------------------------
(* Reading the output file and the input files, for the properties.        *)

Past(states) == pc \in states
Written == DataRows(out)
MetaRow == out.lines[3]
NumFramesField == MetaRow[3].v
NumMarkersField == MetaRow[4].v
OrigNumFramesField == MetaRow[8].v

\* the non-empty fields of a header row after its first two
Groups(line) ==
    SelectSeq(SubSeq(line, 3, Len(line)), LAMBDA f : f # EmptyField)

\* the fields of a data row after Frame and Time, without the empty field
\* that a line ending in a tab ends with
CoordFields(row) ==
    LET rest == SubSeq(row, 3, Len(row))
    IN  IF rest # <<>> /\ rest[Len(rest)] = EmptyField
        THEN SubSeq(rest, 1, Len(rest) - 1) ELSE rest

\* field is the text of exactly the number n / d
FieldIs(field, n, d) ==
    /\ field.t = "n"
    /\ field.ip = Abs(n) \div d
    /\ field.fp * d = (Abs(n) % d) * Pow10(field.p)
    /\ (n # 0 => field.neg = (n < 0))

\* field is the text of the number n / d rounded to p decimals, n >= 0
FieldRounds(field, n, d, p) ==
    /\ field.t = "n"
    /\ field.p = p
    /\ ~field.neg
    /\ 2 * Abs((field.ip * Pow10(p) + field.fp) * d - n * Pow10(p)) <= d

\* the distinct marker names of header line 2 of a file, in file order
RECURSIVE Distinct(_, _)
Distinct(names, found) ==
    IF names = <<>> THEN found
    ELSE Distinct(Tail(names),
                  IF In(Head(names), found) THEN found
                  ELSE Append(found, Head(names)))

FileMarkers(file) ==
    Distinct(SelectSeq(file.line2, LAMBDA c : c # EmptyStr), <<>>)

Range(seq) == {seq[k] : k \in 1..Len(seq)}
CommonMarkers == Range(FileMarkers(lfile)) \cap Range(FileMarkers(tfile))

\* the cell of the table handed to convert_df_to_trc at row i under name
InputCell(i, name) ==
    trajectories.data[i][CHOOSE k \in ColsNamed(trajectories, name) : TRUE]

StrictlyIncreasing(seq) == \A j \in 1..(Len(seq) - 1) : seq[j] < seq[j + 1]

---------------------------------------------------------------------------
(* C1: in every data row convert_df_to_trc has written, a marker whose     *)
(* three input cells of that row are not missing, with values (x, y, z),   *)
(* is written as (1000 x, 1000 z, -1000 y), whatever the units argument.   *)
C1_AxisRemapAndScale ==
    prog = "v3d" =>
      \A i \in 1..Len(Written) : \A j \in 1..Len(markers) :
        LET x == InputCell(i, AxisCol(markers[j], 1))
            y == InputCell(i, AxisCol(markers[j], 2))
            z == InputCell(i, AxisCol(markers[j], 3))
            c == CoordFields(Written[i])
        IN  (~IsNaN(x) /\ ~IsNaN(y) /\ ~IsNaN(z)) =>
              /\ FieldIs(c[3 * j - 2], 1000 * x[1], Den)
              /\ FieldIs(c[3 * j - 1], 1000 * z[1], Den)
              /\ FieldIs(c[3 * j], -1000 * y[1], Den)

\* a finished run with units 'm' that wrote a marker with y # 0 and y # z
C1_Witness ==
    /\ prog = "v3d" /\ pc = "done" /\ units = "m"
    /\ \E i \in 1..Len(Written) : \E j \in 1..Len(markers) :
         LET y == InputCell(i, AxisCol(markers[j], 2))
             z == InputCell(i, AxisCol(markers[j], 3))
         IN  /\ ~IsNaN(InputCell(i, AxisCol(markers[j], 1)))
             /\ ~IsNaN(y) /\ ~IsNaN(z) /\ y[1] # 0 /\ y # z

(* C2: after the gap-filling step of convert_df_to_trc no cell of the      *)
(* table is missing, and no coordinate field of a written data row is nan, *)
(* for every input table.                                                  *)
C2_NoMissingAfterFill ==
    (prog = "v3d" /\ Past({"prepared", "rows", "done"})) =>
      /\ ~AnyNaN(df)
      /\ \A i \in 1..Len(Written) :
           \A k \in 1..Len(CoordFields(Written[i])) :
             CoordFields(Written[i])[k] # NanTxt

(* C3: a single missing sample at frame f between a at the previous row    *)
(* (frame f0) and b at the next row (frame f1) is filled with              *)
(* a + (b - a) (f - f0) / (f1 - f0), in every table with a strictly        *)
(* increasing Frame index.  df holds the filled values times 1000.         *)
SingleGap(i, k) ==
    /\ 1 < i /\ i < Len(trajectories.index)
    /\ IsNaN(trajectories.data[i][k])
    /\ ~IsNaN(trajectories.data[i - 1][k])
    /\ ~IsNaN(trajectories.data[i + 1][k])

C3_LinearInFrame ==
    (prog = "v3d" /\ Past({"prepared", "rows", "done"})
       /\ StrictlyIncreasing(trajectories.index)) =>
      \A i \in 1..Len(trajectories.index) : \A k \in 1..Len(trajectories.cols) :
        SingleGap(i, k) =>
          LET a == trajectories.data[i - 1][k][1]
              b == trajectories.data[i + 1][k][1]
              f0 == trajectories.index[i - 1]
              f == trajectories.index[i]
              f1 == trajectories.index[i + 1]
          IN  df.data[i][k][1] * (f1 - f0)
                = UnitScale * (a * (f1 - f0) + (b - a) * (f - f0))

(* C3 as amended: the filled value is the midpoint of a and b, the frame   *)
(* labels are not read; it is the frame-linear value when f - f0 = f1 - f. *)
C3_LinearInRow ==
    (prog = "v3d" /\ Past({"prepared", "rows", "done"})
       /\ StrictlyIncreasing(trajectories.index)) =>
      \A i \in 1..Len(trajectories.index) : \A k \in 1..Len(trajectories.cols) :
        SingleGap(i, k) =>
          LET a == trajectories.data[i - 1][k][1]
              b == trajectories.data[i + 1][k][1]
              f0 == trajectories.index[i - 1]
              f == trajectories.index[i]
              f1 == trajectories.index[i + 1]
          IN  /\ 2 * df.data[i][k][1] = UnitScale * (a + b)
              /\ (f - f0 = f1 - f) =>
                   df.data[i][k][1] * (f1 - f0)
                     = UnitScale * (a * (f1 - f0) + (b - a) * (f - f0))

\* a filled single gap between two different values, in rows that are not
\* equally spaced in frames
C3_Witness ==
    /\ prog = "v3d" /\ Past({"prepared", "rows", "done"})
    /\ StrictlyIncreasing(trajectories.index)
    /\ \E i \in 1..Len(trajectories.index) : \E k \in 1..Len(trajectories.cols) :
         /\ SingleGap(i, k)
         /\ trajectories.data[i - 1][k] # trajectories.data[i + 1][k]
         /\ trajectories.index[i] - trajectories.index[i - 1]
              # trajectories.index[i + 1] - trajectories.index[i]

(* C4: in every data row either writer has written, with first field f,    *)
(* the Time field is f / frame_rate at the writer's precision.             *)
TimeDecimals == IF prog = "v3d" THEN TimeDecimalsDf ELSE TimeDecimalsAscii

C4_TimeIsFrameOverRate ==
    \A i \in 1..Len(Written) :
      FieldRounds(Written[i][2], Written[i][1].v, frame_rate, TimeDecimals)

(* C4 as amended: convert_df_to_trc writes the frame label f and f / rate; *)
(* convert_to_trc writes the row number f, counted from 1, and (f-1)/rate. *)
C4_TimePerWriter ==
    \A i \in 1..Len(Written) :
      IF prog = "v3d"
      THEN /\ Written[i][1] = IntField(trajectories.index[i])
           /\ FieldRounds(Written[i][2], Written[i][1].v, frame_rate,
                          TimeDecimalsDf)
      ELSE /\ Written[i][1] = IntField(i)
           /\ FieldRounds(Written[i][2], Written[i][1].v - 1, frame_rate,
                          TimeDecimalsAscii)

\* a finished convert_to_trc run of a file that starts at another frame
\* than 1, with rows after the first, at a rate that divides no power of ten
C4_Witness ==
    /\ prog = "ascii" /\ pc = "done"
    /\ Len(Written) >= 2
    /\ frame_rate = 3
    /\ lfile.frames[1] # 1

(* C5: a landmarks table with M1 markers and a targets table with M2       *)
(* markers, no marker name in both: the file convert_df_to_trc writes      *)
(* declares M1 + M2 markers and its marker row lists M1 + M2 groups, the   *)
(* landmarks' then the targets', in column order.  The marker names of a   *)
(* table are those its columns carry: the header cells of lines 1 and 2    *)
(* above a column, joined by "_".                                          *)
TableMarkers(file) ==
    Distinct([k \in 1..(Len(file.line2) - 1) |->
                file.line1[k + 1] \o <<"_">> \o file.line2[k + 1]], <<>>)

C5_MarkerCount ==
    (prog = "v3d" /\ out.exists
       /\ Range(TableMarkers(lfile)) \cap Range(TableMarkers(tfile)) = {}) =>
      LET all == TableMarkers(lfile) \o TableMarkers(tfile)
          groups == Groups(out.lines[4])
      IN  /\ NumMarkersField = Len(all)
          /\ groups = [j \in 1..Len(all) |-> Txt(all[j])]
          /\ \A j, k \in 1..Len(all) : all[j] = all[k] => j = k

\* a finished run on two landmarks and one target, under different tags
C5_Witness ==
    /\ prog = "v3d" /\ pc = "done"
    /\ Range(TableMarkers(lfile)) \cap Range(TableMarkers(tfile)) = {}
    /\ Len(TableMarkers(lfile)) = 2
    /\ Len(TableMarkers(tfile)) = 1
    /\ lfile.line1 # tfile.line1

(* C6: a marker name that is in both files is never resolved silently: the *)
(* conversion does not run to completion.                                  *)
C6_CollisionSurfaced ==
    CommonMarkers # {} => pc # "done"

(* C7: once a writer has failed, the output file does not hold the header  *)
(* lines with none or only some of the data rows.                          *)
C7_NoTruncatedOutput ==
    pc = "failed" =>
      ~(out.exists /\ Len(out.lines) >= HeaderLines /\ Len(Written) < num_frames)

(* C8: the table read_raw_v3d_export_file returns names its columns        *)
(* Marker_Axis, one per marker and axis in file order, and nothing else.   *)
MarkerAxisNames(file) ==
    LET names == SelectSeq(file.line2, LAMBDA c : c # EmptyStr)
        axes == SelectSeq(file.line5, LAMBDA c : c # ITEM)
    IN  [k \in 1..Len(names) |-> names[k] \o <<"_">> \o axes[k]]

C8_ColumnNames ==
    (prog = "v3d" /\ pc = "merged") =>
      trajectories.cols = MarkerAxisNames(lfile) \o MarkerAxisNames(tfile)

(* C9: convert_to_trc writes, for the k-th marker of a file, in row i, the *)
(* cells 3k+1, 3k+2, 3k+3 of data row i of that file (cell 0 the frame).   *)
FieldOfCell(field, c) ==
    IF IsNaN(c) THEN field = NanTxt ELSE FieldIs(field, c[1], Den)

PositionIn(m, list) == CHOOSE k \in 1..Len(list) : list[k] = m

C9_OwnColumns ==
    prog = "ascii" =>
      \A i \in 1..Len(Written) : \A j \in 1..Len(markers) :
        LET m == markers[j]
            inL == m \in Range(FileMarkers(lfile))
            inT == m \in Range(FileMarkers(tfile))
            file == IF inL THEN lfile ELSE tfile
            k == PositionIn(m, FileMarkers(file))
            c == CoordFields(Written[i])
        IN  (inL # inT /\ i <= Len(file.data)
               /\ 3 * k <= Len(file.line5) - 1) =>
              \A a \in 1..3 :
                FieldOfCell(c[3 * (j - 1) + a], file.data[i][3 * (k - 1) + a])

(* C10: in every finished output NumFrames and OrigNumFrames are the       *)
(* number of data rows, and NumMarkers is the number of groups of the      *)
(* marker row, of label triples of the axis row and of coordinate triples  *)
(* of every data row.                                                      *)
C10_HeaderMatchesBody ==
    pc = "done" =>
      /\ NumFramesField = Len(Written)
      /\ OrigNumFramesField = Len(Written)
      /\ Len(Groups(out.lines[4])) = NumMarkersField
      /\ Len(Groups(out.lines[5])) = 3 * NumMarkersField
      /\ \A i \in 1..Len(Written) :
           /\ Len(CoordFields(Written[i])) = 3 * NumMarkersField
           /\ \A k \in 1..Len(CoordFields(Written[i])) :
                CoordFields(Written[i])[k].t \in {"n", "nan"}

C10_Witness ==
    /\ prog = "v3d" /\ pc = "done"
    /\ Len(markers) >= 2
    /\ Len(Written) >= 2

=============================================================================
